---- MODULE Spec2Model ----
(***************************************************************************)
(* One run of the GBS source service (obs_service_gbs/command.py: main and *)
(* gbs_export) as a state machine.  The file system of the output          *)
(* directory, the scratch directory, the log sink and the exception in     *)
(* flight are the state; every statement of main/gbs_export that touches   *)
(* one of them is an action.  External collaborators (repository cache,    *)
(* fork_call, the export tool, sanitize_uid_gid, write_treeish_meta, the   *)
(* operating system) are nondeterministic choices over their outcomes.     *)
(***************************************************************************)
EXTENDS Integers, Sequences, FiniteSets, TLC

(* ---- exit codes, command.py:38-42 ---- *)
EXIT_OK == 0
EXIT_ERR_SERVICE == 1
EXIT_ERR_GBS_EXPORT == 2
EXIT_ERR_GBS_CRASH == 3

(* ---- bounds of the model ---- *)
\* number of distinct file names the export tool may write
MaxFiles == 2

\* sentinel: main has not returned / no exit code is mapped
NoCode == -1

FileNamePool == <<"test-package.spec", "test-package-0.1.tar.bz2",
                  "test-package.changes", "test-package.patch">>
ExportNames == {FileNamePool[i] : i \in 1..MaxFiles}
\* entries an output directory may hold before the run
PreNames == {FileNamePool[1], "old.txt"}

TmpName == "tmpXXXXXX"
ErrorFn == "service-error"
ErrorSpecFn == "service-error.spec"
MetaFn == "_git_meta"

\* --error-pkg takes any comma-separated integers (integer_list)
AllowCodes == {EXIT_OK, EXIT_ERR_SERVICE, EXIT_ERR_GBS_EXPORT, EXIT_ERR_GBS_CRASH}

\* --revision values: two the cache can resolve, one it cannot
RevSpecs == {"HEAD", "v0.1", "foobar"}
ValidRevs == {"HEAD", "v0.1"}
\* CachedRepo.update_working_copy returns the commit the spec resolves to
ResolveRevision(rev) == IF rev = "HEAD" THEN "sha1-master" ELSE "sha1-v0.1"

VARIABLES
    pc,            \* position of main / gbs_export
    error_pkg,     \* args.error_pkg
    git_meta,      \* args.git_meta given
    verbose,       \* args.verbose == 'yes'
    revspec,       \* the caller's --revision
    revision,      \* args.revision (overwritten at line 245)
    outdir0,       \* content of the output directory before the run
    outdir_exists, \* args.outdir exists as a directory
    outdir,        \* entries of args.outdir: name -> kind of content
    tmpdir,        \* local tmpdir of gbs_export: "none" or its name
    subdir,        \* the scratch directory holds the tool's subdirectory
    exportfiles,   \* files in that subdirectory
    exported,      \* files the export tool wrote in a successful export
    identity,      \* locals uid, gid of gbs_export: "unset" or "resolved"
    commit,        \* gbs_args.commit handed to cmd_export
    meta_rev,      \* revision written to the metadata file
    exc,           \* exception in flight
    errmsg,        \* err[0] of the ServiceError
    errcode,       \* err[1] of the ServiceError (or the code returned directly)
    failure,       \* which step failed
    ret,           \* local ret of main
    returned,      \* value main returned
    logged,        \* every record that passed the loggers, in order
    file_buf,      \* written to file_log, not yet flushed
    file_log,      \* content of the temporary log file on disk
    service_error, \* content of outdir/service-error
    steps          \* the steps executed so far, in order

vars == <<pc, error_pkg, git_meta, verbose, revspec, revision, outdir0,
          outdir_exists, outdir, tmpdir, subdir, exportfiles, exported,
          identity,
          commit, meta_rev, exc, errmsg, errcode, failure, ret, returned,
          logged, file_buf, file_log, service_error, steps>>

inputs == <<error_pkg, git_meta, verbose, revspec, outdir0>>
logvars == <<logged, file_buf, file_log>>
scratch == <<tmpdir, subdir, exportfiles, exported, identity>>
errvars == <<exc, errmsg, errcode, failure>>

(* ---- directory entries ---- *)
EmptyDir == [n \in {} |-> "pre"]
Put(d, n, kind) == [x \in (DOMAIN d) \cup {n} |-> IF x = n THEN kind ELSE d[x]]
Remove(d, n) == [x \in (DOMAIN d) \ {n} |-> d[x]]

(* ---- the log sink, command.py:225-230 ---- *)
\* LOGGER passes INFO and above, and DEBUG only with --verbose=yes (217-224)
LoggerPasses(rec) == rec[1] # "DEBUG" \/ verbose
Messages(recs) == LET kept == SelectSeq(recs, LoggerPasses)
                  IN  [i \in 1..Len(kept) |-> kept[i][2]]

\* file_handler.flush(): what is on disk afterwards
Flush_Skipped(file, buf) == file
Flush(file, buf) == file \o buf

\* The records reach the handler's stream; how much of the stream buffer has
\* reached the disk after a write is up to the handler and the file object.
Emit(recs) ==
    LET msgs == Messages(recs)
        pending == file_buf \o msgs
    IN  /\ logged' = logged \o msgs
        /\ \E k \in 0..Len(pending) :
              /\ file_log' = file_log \o SubSeq(pending, 1, k)
              /\ file_buf' = SubSeq(pending, k + 1, Len(pending))

Step(name) == steps' = Append(steps, name)

(* ---- pieces of the code the actions use ---- *)
\* construct_gbs_args, command.py:99-100
GbsCommit_FromSpec(rev) == IF revspec # "" THEN revspec ELSE "None"
GbsCommit(rev) == IF rev # "" THEN rev ELSE "None"

\* the except clauses of gbs_export, command.py:151-166
ExportErrorCode_Swapped(outcome) ==
    CASE outcome = "GbpServiceError" -> EXIT_ERR_SERVICE
      [] outcome = "CmdError" -> EXIT_ERR_GBS_CRASH
      [] OTHER -> EXIT_ERR_GBS_EXPORT
ExportErrorCode(outcome) ==
    CASE outcome = "GbpServiceError" -> EXIT_ERR_SERVICE
      [] outcome = "CmdError" -> EXIT_ERR_GBS_EXPORT
      [] OTHER -> EXIT_ERR_GBS_CRASH

ExportErrorMsg(outcome) ==
    CASE outcome = "GbpServiceError" -> "Failed to run GBS thread"
      [] outcome = "CmdError" -> "GBS export failed"
      [] OTHER -> "GBS crashed, export failed"

ExportErrorLog(outcome) ==
    CASE outcome = "GbpServiceError" ->
            << <<"ERROR", "Internal service error when trying to run GBS">>,
               <<"ERROR", "Most likely a configuration error (or a BUG)!">> >>
      [] outcome = "CmdError" -> << >>
      [] OTHER -> << <<"ERROR", "Uncaught exception in GBS">> >>

\* the code of the ServiceError raised for a repository-cache error, line 248
RepoCacheErrorCode_AsExport == EXIT_ERR_GBS_EXPORT
RepoCacheErrorCode == EXIT_ERR_SERVICE

\* shutil.move of one exported file into outdir, command.py:171-172
MoveInto_KeepOld(d, fname) == IF fname \in DOMAIN d THEN d ELSE Put(d, fname, "export")
MoveInto(d, fname) == Put(d, fname, "export")

\* shutil.rmtree(tmpdir), command.py:175
RmTree_Skipped(d, name) == d
RmTree(d, name) == Remove(d, name)

\* the test of line 262
EmitsErrorPkg_AnyListed(code, allowed) == allowed # {}
EmitsErrorPkg(code, allowed) == code \in allowed

\* ret when no error package is written, line 270
PropagatedCode_Dropped(code) == EXIT_OK
PropagatedCode(code) == code

\* the statements of main up to the call of gbs_export, in the order of
\* lines 230-251: which one runs after the one that just succeeded
MainOrder_CacheFirst(at) ==
    CASE at = "logging" -> "config"
      [] at = "config" -> "cache"
      [] at = "cache" -> "makedirs"
      [] at = "makedirs" -> "mkdtemp"
MainOrder(at) ==
    CASE at = "logging" -> "makedirs"
      [] at = "makedirs" -> "config"
      [] at = "config" -> "cache"
      [] at = "cache" -> "mkdtemp"

\* where a failed fork_call goes: the raise leaves the try, lines 151-166, 174
AfterForkError_Retry(outcome) ==
    IF outcome = "GbpServiceError" THEN "fork" ELSE "finally"
AfterForkError(outcome) == "finally"

\* the test of line 254
WantsMeta_Always(flag) == TRUE
WantsMeta(flag) == flag

(* ---- initial state: the arguments and the world before the run ---- *)
Init ==
    /\ pc = "start"
    /\ error_pkg \in SUBSET AllowCodes
    /\ git_meta \in BOOLEAN
    /\ verbose \in BOOLEAN
    /\ revspec \in RevSpecs
    /\ revision = revspec
    /\ outdir_exists \in BOOLEAN
    /\ outdir0 \in IF outdir_exists
                   THEN {[n \in S |-> "pre"] : S \in SUBSET PreNames}
                   ELSE {EmptyDir}
    /\ outdir = outdir0
    /\ tmpdir = "none"
    /\ subdir = FALSE
    /\ exportfiles = {}
    /\ exported = {}
    /\ identity = "unset"
    /\ commit = "unset"
    /\ meta_rev = "unset"
    /\ exc = "none"
    /\ errmsg = ""
    /\ errcode = NoCode
    /\ failure = "none"
    /\ ret = EXIT_OK
    /\ returned = NoCode
    /\ logged = << >>
    /\ file_buf = << >>
    /\ file_log = << >>
    /\ service_error = << >>
    /\ steps = << >>

\* raise ServiceError(msg, code)
Raise(stage, msg, code) ==
    /\ exc' = "ServiceError"
    /\ errmsg' = msg
    /\ errcode' = code
    /\ failure' = stage

\* an exception main has no handler for
RaiseOther(stage, typ) ==
    /\ exc' = typ
    /\ failure' = stage
    /\ UNCHANGED <<errmsg, errcode>>

(* ---- main, command.py:210-272 ---- *)
\* lines 225-230: attach the file handler, log the first message
SetupLogging ==
    /\ pc = "start"
    /\ Emit(<< <<"INFO", "Starting GBS source service">> >>)
    /\ Step("logging")
    /\ pc' = MainOrder("logging")
    /\ UNCHANGED <<inputs, revision, outdir_exists, outdir, scratch, commit,
                   meta_rev, errvars, ret, returned, service_error>>

\* lines 232-238
MakeOutdir ==
    /\ pc = "makedirs"
    /\ Step("makedirs")
    /\ \/ /\ outdir_exists             \* EEXIST is not an error
          /\ pc' = MainOrder("makedirs")
          /\ UNCHANGED <<outdir_exists, errvars, returned, logvars>>
       \/ /\ ~outdir_exists
          /\ outdir_exists' = TRUE
          /\ pc' = MainOrder("makedirs")
          /\ UNCHANGED <<errvars, returned, logvars>>
       \/ /\ ~outdir_exists            \* any other OSError: return 1
          /\ Emit(<< <<"ERROR", "Failed to create outdir">> >>)
          /\ failure' = "outdir"
          /\ errcode' = EXIT_ERR_SERVICE
          /\ returned' = EXIT_ERR_SERVICE
          /\ pc' = "done"
          /\ UNCHANGED <<outdir_exists, exc, errmsg>>
    /\ UNCHANGED <<inputs, revision, outdir, scratch, commit, meta_rev, ret,
                   service_error>>

\* line 241, read_config (103-126)
ReadConfig ==
    /\ pc = "config"
    /\ Emit(<< <<"DEBUG", "Trying config files">>,
               <<"DEBUG", "Read config files">> >>)
    /\ Step("config")
    /\ pc' = MainOrder("config")
    /\ UNCHANGED <<inputs, revision, outdir_exists, outdir, scratch, commit,
                   meta_rev, errvars, ret, returned, service_error>>

\* lines 243-248
UpdateWorkingCopy ==
    /\ pc = "cache"
    /\ Step("cache")
    /\ \/ /\ revspec \in ValidRevs
          /\ revision' = ResolveRevision(revision)
          /\ pc' = MainOrder("cache")
          /\ UNCHANGED errvars
       \/ /\ Raise("cache", "RepoCache: error", RepoCacheErrorCode)
          /\ pc' = "except"
          /\ UNCHANGED revision
    /\ UNCHANGED <<inputs, outdir_exists, outdir, scratch, commit, meta_rev,
                   ret, returned, logvars, service_error>>

(* ---- gbs_export, command.py:128-175 ---- *)
\* lines 131-135
MkDtemp ==
    /\ pc = "mkdtemp"
    /\ Step("mkdtemp")
    /\ \/ /\ tmpdir' = TmpName
          /\ outdir' = Put(outdir, TmpName, "scratch")
          /\ pc' = "uidgid"
          /\ UNCHANGED errvars
       \/ /\ Raise("tmpdir", "Failed to create tmpdir", EXIT_ERR_SERVICE)
          /\ pc' = "except"
          /\ UNCHANGED <<tmpdir, outdir>>
    /\ UNCHANGED <<inputs, revision, outdir_exists, subdir, exportfiles,
                   exported, identity, commit, meta_rev, ret, returned,
                   logvars, service_error>>

\* lines 138-141: outside the try/finally of line 145
SanitizeUidGid ==
    /\ pc = "uidgid"
    /\ Step("uidgid")
    /\ \/ /\ identity' = "resolved"
          /\ pc' = "chown"
          /\ UNCHANGED errvars
       \/ /\ Raise("uidgid", "uid/gid error", EXIT_ERR_SERVICE)
          /\ pc' = "except"
          /\ UNCHANGED identity
    /\ UNCHANGED <<inputs, revision, outdir_exists, outdir, tmpdir, subdir,
                   exportfiles, exported, commit, meta_rev, ret, returned,
                   logvars, service_error>>

\* line 142: os.chown raises OSError, which nothing catches
Chown ==
    /\ pc = "chown"
    /\ Step("chown")
    /\ \/ /\ pc' = "args"
          /\ UNCHANGED errvars
       \/ /\ RaiseOther("chown", "OSError")
          /\ pc' = "raised"
    /\ UNCHANGED <<inputs, revision, outdir_exists, outdir, scratch, commit,
                   meta_rev, ret, returned, logvars, service_error>>

\* lines 146-148
ConstructGbsArgs ==
    /\ pc = "args"
    /\ Step("args")
    /\ commit' = GbsCommit(revision)
    /\ Emit(<< <<"INFO", "Exporting packaging files with GBS">>,
               <<"DEBUG", "gbs args">> >>)
    /\ pc' = "fork"
    /\ UNCHANGED <<inputs, revision, outdir_exists, outdir, scratch, meta_rev,
                   errvars, ret, returned, service_error>>

\* lines 149-166: the child runs cmd_export, which writes into tmpdir
ForkCall ==
    /\ pc = "fork"
    /\ Step("fork")
    /\ \/ \E made \in BOOLEAN, files \in SUBSET ExportNames :
             /\ made \/ files = {}
             /\ subdir' = made
             /\ exportfiles' = files
             /\ exported' = files
             /\ pc' = "listdir"
             /\ UNCHANGED <<errvars, logvars>>
       \/ \E outcome \in {"GbpServiceError", "CmdError", "MockGbsError"},
             made \in BOOLEAN, files \in SUBSET ExportNames :
             /\ made \/ files = {}
             /\ outcome = "GbpServiceError" => ~made
             /\ subdir' = made
             /\ exportfiles' = files
             /\ UNCHANGED exported
             /\ Emit(ExportErrorLog(outcome))
             /\ Raise(outcome, ExportErrorMsg(outcome), ExportErrorCode(outcome))
             /\ pc' = AfterForkError(outcome)
    /\ UNCHANGED <<inputs, revision, outdir_exists, outdir, tmpdir, identity,
                   commit, meta_rev, ret, returned, service_error>>

\* line 169: os.listdir(tmpdir)[0]
ListExportDir ==
    /\ pc = "listdir"
    /\ Step("listdir")
    /\ \/ /\ subdir
          /\ pc' = "move"
          /\ UNCHANGED errvars
       \/ /\ ~subdir
          /\ RaiseOther("listdir", "IndexError")
          /\ pc' = "finally"
    /\ UNCHANGED <<inputs, revision, outdir_exists, outdir, scratch, commit,
                   meta_rev, ret, returned, logvars, service_error>>

\* lines 170-172: one iteration of the loop; os.listdir gives any order
MoveFile ==
    /\ pc = "move"
    /\ \E fname \in exportfiles :
          \/ /\ outdir' = MoveInto(outdir, fname)
             /\ exportfiles' = exportfiles \ {fname}
             /\ Step("move")
             /\ pc' = "move"
             /\ UNCHANGED errvars
          \/ /\ RaiseOther("move", "IOError")
             /\ Step("movefail")
             /\ pc' = "finally"
             /\ UNCHANGED <<outdir, exportfiles>>
    /\ UNCHANGED <<inputs, revision, outdir_exists, tmpdir, subdir, exported,
                   identity, commit, meta_rev, ret, returned, logvars,
                   service_error>>

\* line 173
MoveDone ==
    /\ pc = "move"
    /\ exportfiles = {}
    /\ Emit(<< <<"INFO", "Packaging files successfully exported">> >>)
    /\ Step("moved")
    /\ pc' = "finally"
    /\ UNCHANGED <<inputs, revision, outdir_exists, outdir, scratch, commit,
                   meta_rev, errvars, ret, returned, service_error>>

\* lines 174-175, then the exception (if any) goes on to main
Cleanup ==
    /\ pc = "finally"
    /\ Step("rmtree")
    /\ outdir' = RmTree(outdir, tmpdir)
    /\ subdir' = FALSE
    /\ exportfiles' = {}
    /\ pc' = CASE exc = "none" -> "meta"
               [] exc = "ServiceError" -> "except"
               [] OTHER -> "raised"
    /\ UNCHANGED <<inputs, revision, outdir_exists, tmpdir, exported,
                   identity, commit, meta_rev, errvars, ret, returned,
                   logvars, service_error>>

(* ---- main, continued ---- *)
\* lines 253-259
WriteGitMeta ==
    /\ pc = "meta"
    /\ \/ /\ ~WantsMeta(git_meta)
          /\ pc' = "return"
          /\ UNCHANGED <<outdir, meta_rev, errvars, steps>>
       \/ /\ WantsMeta(git_meta)
          /\ Step("meta")
          /\ outdir' = Put(outdir, MetaFn, "meta")
          /\ meta_rev' = revision
          /\ pc' = "return"
          /\ UNCHANGED errvars
       \/ /\ WantsMeta(git_meta)
          /\ Step("metafail")
          /\ Raise("meta", "meta error", EXIT_ERR_SERVICE)
          /\ pc' = "except"
          /\ UNCHANGED <<outdir, meta_rev>>
    /\ UNCHANGED <<inputs, revision, outdir_exists, scratch, commit, ret,
                   returned, logvars, service_error>>

\* lines 260-262, 269-270
HandleServiceError ==
    /\ pc = "except"
    /\ Emit(<< <<"ERROR", errmsg>> >>)
    /\ Step("except")
    /\ IF EmitsErrorPkg(errcode, error_pkg)
       THEN pc' = "errlog" /\ UNCHANGED ret
       ELSE pc' = "return" /\ ret' = PropagatedCode(errcode)
    /\ UNCHANGED <<inputs, revision, outdir_exists, outdir, scratch, commit,
                   meta_rev, errvars, returned, service_error>>

\* lines 263-265: flush the handler, copy the log file into outdir
WriteErrorLog ==
    /\ pc = "errlog"
    /\ file_log' = Flush(file_log, file_buf)
    /\ file_buf' = << >>
    /\ \/ /\ outdir' = Put(outdir, ErrorFn, "errlog")
          /\ service_error' = file_log'
          /\ Step("errlog")
          /\ pc' = "errspec"
          /\ UNCHANGED errvars
       \/ /\ RaiseOther("errpkg", "IOError")
          /\ Step("errlogfail")
          /\ pc' = "raised"
          /\ UNCHANGED <<outdir, service_error>>
    /\ UNCHANGED <<inputs, revision, outdir_exists, scratch, commit, meta_rev,
                   ret, returned, logged>>

\* lines 266-268
WriteErrorSpec ==
    /\ pc = "errspec"
    /\ \/ /\ outdir' = Put(outdir, ErrorSpecFn, "errspec")
          /\ ret' = EXIT_OK
          /\ Step("errspec")
          /\ pc' = "return"
          /\ UNCHANGED errvars
       \/ /\ RaiseOther("errpkg", "IOError")
          /\ Step("errspecfail")
          /\ pc' = "raised"
          /\ UNCHANGED <<outdir, ret>>
    /\ UNCHANGED <<inputs, revision, outdir_exists, scratch, commit, meta_rev,
                   returned, logvars, service_error>>

\* line 272
Return ==
    /\ pc = "return"
    /\ returned' = ret
    /\ pc' = "done"
    /\ UNCHANGED <<inputs, revision, outdir_exists, outdir, scratch, commit,
                   meta_rev, errvars, ret, logvars, service_error, steps>>

Next ==
    \/ SetupLogging
    \/ MakeOutdir
    \/ ReadConfig
    \/ UpdateWorkingCopy
    \/ MkDtemp
    \/ SanitizeUidGid
    \/ Chown
    \/ ConstructGbsArgs
    \/ ForkCall
    \/ ListExportDir
    \/ MoveFile
    \/ MoveDone
    \/ Cleanup
    \/ WriteGitMeta
    \/ HandleServiceError
    \/ WriteErrorLog
    \/ WriteErrorSpec
    \/ Return

Spec == Init /\ [][Next]_vars

Finished == pc \in {"done", "raised"}

TypeOK ==
    /\ returned \in {NoCode} \cup AllowCodes
    /\ errcode \in {NoCode} \cup AllowCodes
    /\ DOMAIN outdir \subseteq PreNames \cup ExportNames \cup {TmpName, ErrorFn, ErrorSpecFn, MetaFn}

(* ======================= the claims ======================= *)
ForkFailures == {"GbpServiceError", "CmdError", "MockGbsError"}
ErrorPkgWritten == \E n \in DOMAIN outdir : outdir[n] \in {"errlog", "errspec"}

\* C1: every failure (outdir creation, cache, scratch creation, identity,
\* starting the child, the export, metadata) whose mapped exit code is in the
\* --error-pkg allowlist ends with main returning 0 and service-error and
\* service-error.spec in the output directory; every other failure makes main
\* return the mapped code.
C1_AllowlistedFailureGivesErrorPkg ==
    (Finished /\ failure \in {"outdir", "cache", "tmpdir", "uidgid", "meta"} \cup ForkFailures)
        => IF errcode \in error_pkg
           THEN /\ returned = 0
                /\ {ErrorFn, ErrorSpecFn} \subseteq DOMAIN outdir
           ELSE returned = errcode

\* C2: in every run that created the scratch directory, the scratch directory
\* no longer exists when the run ends, whatever the exit path.
C2_ScratchRemovedAtEnd ==
    (Finished /\ tmpdir # "none") => TmpName \notin DOMAIN outdir

\* C3: with an empty allowlist, the outcome of the isolated export call decides
\* the return value: CmdError gives 2, any other exception of the child gives
\* 3, GbpServiceError from fork_call gives 1.
C3_ExportOutcomeDecidesCode ==
    (Finished /\ error_pkg = {} /\ failure \in ForkFailures)
        => /\ pc = "done"
           /\ failure = "CmdError" => returned = 2
           /\ failure = "MockGbsError" => returned = 3
           /\ failure = "GbpServiceError" => returned = 1

C3_Witness ==
    /\ pc = "done" /\ error_pkg = {}
    /\ failure = "MockGbsError" /\ returned = 3
    /\ "rmtree" \in {steps[i] : i \in 1..Len(steps)}

\* C4: with an empty allowlist, a failure of the repository cache, of the
\* creation of the output directory, of the creation of the scratch
\* directory, of the user/group resolution or of the metadata write makes main
\* return 1.
C4_SetupFailuresReturnOne ==
    (Finished /\ error_pkg = {}
        /\ failure \in {"cache", "outdir", "tmpdir", "uidgid", "meta"})
        => pc = "done" /\ returned = 1

C4_Witness ==
    /\ pc = "done" /\ error_pkg = {} /\ failure = "meta"
    /\ returned = 1 /\ exported # {}

\* C5: a failure whose mapped exit code is not in the allowlist never writes
\* service-error or service-error.spec, and main returns that code unchanged,
\* whatever else the allowlist holds.
C5_UnlistedCodePropagates ==
    (errcode # NoCode /\ errcode \notin error_pkg)
        => /\ ~ErrorPkgWritten
           /\ Finished => (pc = "done" /\ returned = errcode)

C5_Witness ==
    /\ pc = "done" /\ errcode = 2 /\ error_pkg = {1, 3}
    /\ returned = 2 /\ ~ErrorPkgWritten

\* what the output directory holds after a run that only relocated the export
ExpectedOutdir ==
    [n \in (DOMAIN outdir0) \cup exported |->
        IF n \in exported THEN "export" ELSE outdir0[n]]

\* C6: after a run whose export (tool call and relocation) succeeds and that
\* has no metadata to write, main returned 0 and the output directory holds
\* what it held before plus every file the tool wrote into the subdirectory
\* of the scratch directory (overwriting same-named files), and nothing else.
C6_SuccessfulExportRelocatesAll ==
    (Finished /\ failure = "none" /\ ~git_meta)
        => /\ pc = "done"
           /\ returned = 0
           /\ outdir = ExpectedOutdir

C6_Witness ==
    /\ pc = "done" /\ failure = "none" /\ ~git_meta
    /\ exported = ExportNames
    /\ FileNamePool[1] \in DOMAIN outdir0
    /\ outdir[FileNamePool[1]] = "export"
    /\ tmpdir # "none"

\* C7 (as claimed): an invalid revision with allowlist {2,3} returns 0 and
\* leaves exactly service-error and service-error.spec in the output directory.
C7_InvalidRevisionMasked ==
    (Finished /\ revspec \notin ValidRevs /\ error_pkg = {2, 3})
        => /\ returned = 0
           /\ DOMAIN outdir = {ErrorFn, ErrorSpecFn}

\* C7 (amended): an invalid revision with allowlist {2,3} returns 1 and leaves
\* the output directory as it was, without service-error or service-error.spec.
C7_InvalidRevisionNotMasked ==
    (Finished /\ revspec \notin ValidRevs /\ error_pkg = {2, 3})
        => /\ pc = "done"
           /\ returned = 1
           /\ outdir = outdir0

C7_Witness ==
    /\ pc = "done" /\ revspec = "foobar" /\ error_pkg = {2, 3}
    /\ failure = "cache" /\ returned = 1

\* C8: a run that fails in the repository cache or in the isolated export call
\* with a code outside the allowlist leaves the output directory with exactly
\* the entries it had before the run.
C8_FailedRunLeavesOutdirUntouched ==
    (Finished /\ failure \in {"cache"} \cup ForkFailures /\ errcode \notin error_pkg)
        => outdir = outdir0

C8_Witness ==
    /\ pc = "done" /\ failure = "CmdError" /\ errcode \notin error_pkg
    /\ tmpdir = TmpName /\ DOMAIN outdir0 # {}
    /\ outdir = outdir0

\* C9: every run ends by main returning 0, 1, 2 or 3; no failure of a step
\* leaves main as an exception.
C9_EveryRunReturnsExitCode ==
    Finished => (pc = "done" /\ returned \in {0, 1, 2, 3})

\* C10: whenever the error package is emitted, service-error holds every
\* message logged during the run, in order, from the first one after the sink
\* was attached up to and including the error message of the failure.
C10_ErrorLogComplete ==
    (ErrorFn \in DOMAIN outdir /\ outdir[ErrorFn] = "errlog")
        => /\ service_error = logged
           /\ Len(logged) >= 2
           /\ logged[1] = "Starting GBS source service"
           /\ logged[Len(logged)] = errmsg

C10_Witness ==
    /\ pc = "done" /\ returned = 0 /\ verbose
    /\ failure = "GbpServiceError"
    /\ outdir[ErrorFn] = "errlog" /\ outdir[ErrorSpecFn] = "errspec"
    /\ Len(service_error) = 8

(* ---- the order of the steps, read from the record of the run ---- *)
Did(name) == \E i \in 1..Len(steps) : steps[i] = name
Pos(name) == IF Did(name)
             THEN CHOOSE i \in 1..Len(steps) :
                     /\ steps[i] = name
                     /\ \A j \in 1..(i - 1) : steps[j] # name
             ELSE 0
Count(name) == Cardinality({i \in 1..Len(steps) : steps[i] = name})
Before(a, b) == Did(a) /\ Did(b) /\ Pos(a) < Pos(b)
\* files in the output directory that the run moved there from the export
MovedIn == {n \in DOMAIN outdir : outdir[n] = "export"}
MetaWritten == \E n \in DOMAIN outdir : outdir[n] = "meta"
WorkingCopyReady == revspec \in ValidRevs /\ revision = ResolveRevision(revspec)

\* C11: in every reachable state the output directory holds the export's
\* files either not at all or as the complete set; a failure during
\* relocation leaves none of them; and no entry other than the final
\* artifacts is ever visible in the output directory.
C11_OutdirNeverPartial ==
    /\ MovedIn = {} \/ MovedIn = exported
    /\ (Finished /\ failure = "move") => MovedIn = {}
    /\ \A n \in DOMAIN outdir : outdir[n] # "scratch"

\* C12 (as claimed): the steps run in the order configuration, working copy,
\* output directory, export, metadata; the output directory is ensured only
\* after the working copy is ready and a cache failure precedes any creation
\* of the output directory.
C12_CacheBeforeOutdir ==
    /\ Did("cache") => Before("config", "cache")
    /\ Did("makedirs") => (Before("cache", "makedirs") /\ WorkingCopyReady)
    /\ Did("mkdtemp") => Before("makedirs", "mkdtemp")
    /\ (Did("meta") \/ Did("metafail")) => Did("moved")
    /\ failure = "cache" => ~Did("makedirs")

\* C12 (amended): the steps run in the order output directory, configuration,
\* working copy, export, metadata, each only after its predecessor succeeded;
\* the working copy is requested only once the output directory exists, and
\* a cache failure happens after the output directory was ensured.
C12_OutdirBeforeCache ==
    /\ Did("config") => (Before("makedirs", "config") /\ outdir_exists)
    /\ Did("cache") => Before("config", "cache")
    /\ Did("mkdtemp") => (Before("cache", "mkdtemp") /\ WorkingCopyReady)
    /\ (Did("meta") \/ Did("metafail")) =>
          /\ Before("mkdtemp", "moved")
          /\ Before("moved", "rmtree")
          /\ Pos("rmtree") < Len(steps)
    /\ failure = "cache" => (Before("makedirs", "cache") /\ outdir_exists)

C12_Witness ==
    /\ pc = "done" /\ Did("meta") /\ returned = 0
    /\ DOMAIN outdir0 = {} /\ outdir_exists
    /\ steps[1] = "logging" /\ steps[2] = "makedirs" /\ steps[3] = "config"
    /\ steps[4] = "cache" /\ steps[5] = "mkdtemp"

\* C13: the target identity is resolved before the scratch directory is
\* created; a run whose user or group cannot be resolved never created a
\* scratch directory.
C13_IdentityBeforeScratch ==
    /\ tmpdir # "none" => identity = "resolved"
    /\ failure = "uidgid" => (tmpdir = "none" /\ ~Did("mkdtemp"))

\* C14: fork_call of cmd_export is invoked at most once per run, never retried
\* after a failure, and only when the output directory exists, the cache
\* returned a working copy, the scratch directory was created and the identity
\* was resolved; in every other run it is never invoked.
C14_SingleExportAttempt ==
    /\ Count("fork") <= 1
    /\ (pc = "fork" \/ Did("fork")) =>
          /\ outdir_exists
          /\ WorkingCopyReady
          /\ tmpdir = TmpName
          /\ identity = "resolved"
    /\ pc = "fork" => (TmpName \in DOMAIN outdir /\ ~Did("fork"))
    /\ (Finished /\ failure \in {"outdir", "cache", "tmpdir", "uidgid", "chown"})
          => ~Did("fork")

C14_Witness ==
    /\ pc = "done" /\ failure = "GbpServiceError"
    /\ Count("fork") = 1 /\ Did("except")

\* C15: the metadata file is written only when --git-meta was requested and
\* only after the export and the relocation succeeded; a run whose cache
\* access or export fails writes no metadata; a run whose metadata write fails
\* returns 1 (empty allowlist) with the exported files already in outdir.
C15_MetaOnlyAfterExport ==
    /\ (MetaWritten \/ Did("meta") \/ Did("metafail")) =>
          /\ git_meta
          /\ Before("moved", "rmtree")
          /\ exported \subseteq MovedIn
          /\ TmpName \notin DOMAIN outdir
    /\ failure \in {"cache"} \cup ForkFailures =>
          (~MetaWritten /\ meta_rev = "unset" /\ ~Did("meta"))
    /\ (Finished /\ failure = "meta" /\ error_pkg = {}) =>
          /\ pc = "done"
          /\ returned = 1
          /\ \A n \in exported : n \in DOMAIN outdir /\ outdir[n] = "export"

C15_Witness ==
    /\ pc = "done" /\ failure = "meta" /\ error_pkg = {}
    /\ returned = 1 /\ exported = ExportNames /\ MovedIn = ExportNames
    /\ ~MetaWritten

\* C16: exported artifacts and the error package never coexist as the result
\* of one run: whenever service-error or service-error.spec was written, the
\* output directory holds no file exported by that run.
C16_ErrorPkgExcludesArtifacts ==
    ErrorPkgWritten => MovedIn = {}

ErrorPkgComplete ==
    /\ ErrorFn \in DOMAIN outdir /\ outdir[ErrorFn] = "errlog"
    /\ ErrorSpecFn \in DOMAIN outdir /\ outdir[ErrorSpecFn] = "errspec"

\* C17: main returns 0 exactly when every stage succeeded or a stage failed
\* and the error package was written; a run in which every stage succeeds
\* never writes service-error or service-error.spec, whatever the allowlist
\* holds; a run that writes the error package returns 0.
C17_ZeroIffSuccessOrErrorPkg ==
    /\ pc = "done" => (returned = 0 <=> (failure = "none" \/ ErrorPkgComplete))
    /\ failure = "none" => ~ErrorPkgWritten
    /\ (Finished /\ ErrorPkgComplete) => (pc = "done" /\ returned = 0)

C17_Witness ==
    /\ pc = "done" /\ failure = "none" /\ returned = 0
    /\ 0 \in error_pkg /\ ~ErrorPkgWritten /\ MovedIn # {}

\* C18: the commit handed to the export tool and the revision written to the
\* metadata file are both the commit the repository cache resolved the
\* caller's revision spec to, never the spec itself, and are the same.
C18_ResolvedRevisionUsed ==
    /\ commit # "unset" =>
          (commit = ResolveRevision(revspec) /\ commit # revspec)
    /\ meta_rev # "unset" =>
          /\ meta_rev = ResolveRevision(revspec)
          /\ meta_rev # revspec
          /\ meta_rev = commit

C18_Witness ==
    /\ pc = "done" /\ revspec = "v0.1"
    /\ commit = "sha1-v0.1" /\ meta_rev = "sha1-v0.1" /\ MetaWritten

\* C19: at every point of a run at most one scratch directory exists; it is
\* created only when the output directory exists; and every run that created
\* it removed it exactly once.
C19_ScratchCreatedAndRemovedOnce ==
    /\ Count("mkdtemp") <= 1
    /\ Cardinality({n \in DOMAIN outdir : outdir[n] = "scratch"}) <= 1
    /\ tmpdir # "none" => outdir_exists
    /\ (Finished /\ tmpdir # "none") => Count("rmtree") = 1

====
